---- MODULE Spec2Model ----
(***************************************************************************)
(* Model of suitesparse_graphblas/create_headers.py: the one-shot tool     *)
(* that copies GraphBLAS.h, preprocesses it, parses and classifies its     *)
(* declarations, writes two headers and a source file, and validates the   *)
(* #define names.                                                          *)
(*                                                                         *)
(* Text.  A Python str is modelled as a sequence of lexical atoms (TLA+    *)
(* strings): "GxB_kron" is <<"GxB","_","kron">>.  Every substring the      *)
(* source searches a declaration for, splits it on or replaces in it is a  *)
(* whole number of atoms, and no other atom of a declaration contains one  *)
(* of them ("INT8" is <<"INT","8">>), so the atom-level operators below    *)
(* compute what the str methods compute on the spelled-out text.  Order    *)
(* is the order of the spelled-out text (Spelling).                        *)
(***************************************************************************)
EXTENDS Integers, Sequences, FiniteSets

(***************************************************************************)
(* Bounds of the model.                                                    *)
(***************************************************************************)
\* the processed header holds at most MaxDecls top-level declarations
MaxDecls == 2
\* the copied header holds at most MaxDirectives #define directives besides
\* the ones of BaseDirectives
MaxDirectives == 1

(***************************************************************************)
(* str methods.                                                            *)
(***************************************************************************)
\* `p in t`
Contains(t, p) ==
    \E i \in 0..(Len(t) - Len(p)) : SubSeq(t, i + 1, i + Len(p)) = p

\* t.startswith(p)
StartsWith(t, p) == Len(p) <= Len(t) /\ SubSeq(t, 1, Len(p)) = p

\* t.endswith(p)
EndsWith(t, p) ==
    Len(p) <= Len(t) /\ SubSeq(t, Len(t) - Len(p) + 1, Len(t)) = p

\* t[:-1]
DropLast(t) == SubSeq(t, 1, Len(t) - 1)

\* t[1:-1]
DropFirstLast(t) == SubSeq(t, 2, Len(t) - 1)

\* index of the first occurrence of the atom sep in t, 0 when there is none
RECURSIVE FirstIndex(_, _, _)
FirstIndex(t, sep, i) ==
    IF i > Len(t) THEN 0
    ELSE IF t[i] = sep THEN i
    ELSE FirstIndex(t, sep, i + 1)

\* t.split(sep) for a one-atom separator
RECURSIVE Split(_, _)
Split(t, sep) ==
    LET i == FirstIndex(t, sep, 1)
    IN  IF i = 0 THEN <<t>>
        ELSE <<SubSeq(t, 1, i - 1)>> \o Split(SubSeq(t, i + 1, Len(t)), sep)

\* t.split(sep, n): at most n splits
RECURSIVE SplitN(_, _, _)
SplitN(t, sep, n) ==
    LET i == FirstIndex(t, sep, 1)
    IN  IF n = 0 \/ i = 0 THEN <<t>>
        ELSE <<SubSeq(t, 1, i - 1)>>
                 \o SplitN(SubSeq(t, i + 1, Len(t)), sep, n - 1)

\* t.splitlines(): no line for the empty string, none after a final newline
SplitLines(t) ==
    IF t = <<>> THEN <<>>
    ELSE IF t[Len(t)] = "\n" THEN Split(DropLast(t), "\n")
    ELSE Split(t, "\n")

\* t.rsplit(sep, 1)[-1]: what follows the last sep (all of t without one)
RECURSIVE AfterLast(_, _)
AfterLast(t, sep) ==
    LET i == FirstIndex(t, sep, 1)
    IN  IF i = 0 THEN t ELSE AfterLast(SubSeq(t, i + 1, Len(t)), sep)

\* t.replace(old, new): left to right, non-overlapping
RECURSIVE Replace(_, _, _)
Replace(t, old, new) ==
    IF Len(t) < Len(old) \/ t = <<>> THEN t
    ELSE IF SubSeq(t, 1, Len(old)) = old
         THEN new \o Replace(SubSeq(t, Len(old) + 1, Len(t)), old, new)
         ELSE <<t[1]>> \o Replace(Tail(t), old, new)

IsSpace(a) == a \in {" ", "\n"}

\* t.lstrip()
RECURSIVE LStrip(_)
LStrip(t) == IF t # <<>> /\ IsSpace(t[1]) THEN LStrip(Tail(t)) ELSE t

\* t.rstrip()
RECURSIVE RStrip(_)
RStrip(t) ==
    IF t # <<>> /\ IsSpace(t[Len(t)]) THEN RStrip(DropLast(t)) ELSE t

\* t.strip()
Strip(t) == LStrip(RStrip(t))

\* sep.join(parts)
RECURSIVE Join(_, _)
Join(parts, sep) ==
    IF parts = <<>> THEN <<>>
    ELSE IF Len(parts) = 1 THEN parts[1]
    ELSE parts[1] \o sep \o Join(Tail(parts), sep)

\* the elements of a sequence
Range(s) == {s[i] : i \in DOMAIN s}

\* s1 + s2 + ... for a sequence of sequences
RECURSIVE Flatten(_)
Flatten(ss) == IF ss = <<>> THEN <<>> ELSE ss[1] \o Flatten(Tail(ss))

(***************************************************************************)
(* Order of str values: code point order of the spelled-out text.          *)
(* Spelling gives the code points of every atom of the model.              *)
(***************************************************************************)
Spelling ==
    {
     <<"\n", <<10>>>>,
     <<" ", <<32>>>>,
     <<" */", <<32, 42, 47>>>>,
     <<"\"GraphBLAS.h\"", <<34, 71, 114, 97, 112, 104, 66, 76, 65, 83, 46, 104, 34>>>>,
     <<"#", <<35>>>>,
     <<"(", <<40>>>>,
     <<")", <<41>>>>,
     <<"*", <<42>>>>,
     <<",", <<44>>>>,
     <<"...", <<46, 46, 46>>>>,
     <<"/* ", <<47, 42, 32>>>>,
     <<"0", <<48>>>>,
     <<"1", <<49>>>>,
     <<"6", <<54>>>>,
     <<"8", <<56>>>>,
     <<";", <<59>>>>,
     <<"=", <<61>>>>,
     <<"A", <<65>>>>,
     <<"ABOUT", <<65, 66, 79, 85, 84>>>>,
     <<"ABS", <<65, 66, 83>>>>,
     <<"ALL", <<65, 76, 76>>>>,
     <<"BinaryOp", <<66, 105, 110, 97, 114, 121, 79, 112>>>>,
     <<"C", <<67>>>>,
     <<"COMP", <<67, 79, 77, 80>>>>,
     <<"Code", <<67, 111, 100, 101>>>>,
     <<"Complex", <<67, 111, 109, 112, 108, 101, 120>>>>,
     <<"DEFAULT", <<68, 69, 70, 65, 85, 76, 84>>>>,
     <<"Desc", <<68, 101, 115, 99>>>>,
     <<"Descriptor", <<68, 101, 115, 99, 114, 105, 112, 116, 111, 114>>>>,
     <<"FC32", <<70, 67, 51, 50>>>>,
     <<"FC64", <<70, 67, 54, 52>>>>,
     <<"FORMAT", <<70, 79, 82, 77, 65, 84>>>>,
     <<"Field", <<70, 105, 101, 108, 100>>>>,
     <<"Foo", <<70, 111, 111>>>>,
     <<"Format", <<70, 111, 114, 109, 97, 116>>>>,
     <<"GB", <<71, 66>>>>,
     <<"Global", <<71, 108, 111, 98, 97, 108>>>>,
     <<"GrB", <<71, 114, 66>>>>,
     <<"GxB", <<71, 120, 66>>>>,
     <<"HYPER", <<72, 89, 80, 69, 82>>>>,
     <<"INT", <<73, 78, 84>>>>,
     <<"IS", <<73, 83>>>>,
     <<"Index", <<73, 110, 100, 101, 120>>>>,
     <<"Info", <<73, 110, 102, 111>>>>,
     <<"Matrix", <<77, 97, 116, 114, 105, 120>>>>,
     <<"Monoid", <<77, 111, 110, 111, 105, 100>>>>,
     <<"NEW", <<78, 69, 87>>>>,
     <<"NTHREADS", <<78, 84, 72, 82, 69, 65, 68, 83>>>>,
     <<"OPTION", <<79, 80, 84, 73, 79, 78>>>>,
     <<"Option", <<79, 112, 116, 105, 111, 110>>>>,
     <<"PUBLIC", <<80, 85, 66, 76, 73, 67>>>>,
     <<"SCMP", <<83, 67, 77, 80>>>>,
     <<"SPEC", <<83, 80, 69, 67>>>>,
     <<"STDC", <<83, 84, 68, 67>>>>,
     <<"STR", <<83, 84, 82>>>>,
     <<"Scalar", <<83, 99, 97, 108, 97, 114>>>>,
     <<"SelectOp", <<83, 101, 108, 101, 99, 116, 79, 112>>>>,
     <<"Semiring", <<83, 101, 109, 105, 114, 105, 110, 103>>>>,
     <<"TRAN", <<84, 82, 65, 78>>>>,
     <<"TRIL", <<84, 82, 73, 76>>>>,
     <<"Type", <<84, 121, 112, 101>>>>,
     <<"UDT", <<85, 68, 84>>>>,
     <<"UnaryOp", <<85, 110, 97, 114, 121, 79, 112>>>>,
     <<"VERSION", <<86, 69, 82, 83, 73, 79, 78>>>>,
     <<"Value", <<86, 97, 108, 117, 101>>>>,
     <<"Vector", <<86, 101, 99, 116, 111, 114>>>>,
     <<"_", <<95>>>>,
     <<"bar", <<98, 97, 114>>>>,
     <<"binary", <<98, 105, 110, 97, 114, 121>>>>,
     <<"char", <<99, 104, 97, 114>>>>,
     <<"code", <<99, 111, 100, 101>>>>,
     <<"const", <<99, 111, 110, 115, 116>>>>,
     <<"core", <<99, 111, 114, 101>>>>,
     <<"cuda", <<99, 117, 100, 97>>>>,
     <<"define", <<100, 101, 102, 105, 110, 101>>>>,
     <<"descriptor", <<100, 101, 115, 99, 114, 105, 112, 116, 111, 114>>>>,
     <<"double", <<100, 111, 117, 98, 108, 101>>>>,
     <<"enum", <<101, 110, 117, 109>>>>,
     <<"errno", <<101, 114, 114, 110, 111>>>>,
     <<"extern", <<101, 120, 116, 101, 114, 110>>>>,
     <<"finalize", <<102, 105, 110, 97, 108, 105, 122, 101>>>>,
     <<"function", <<102, 117, 110, 99, 116, 105, 111, 110>>>>,
     <<"getVersion", <<103, 101, 116, 86, 101, 114, 115, 105, 111, 110>>>>,
     <<"include", <<105, 110, 99, 108, 117, 100, 101>>>>,
     <<"init", <<105, 110, 105, 116>>>>,
     <<"int", <<105, 110, 116>>>>,
     <<"kron", <<107, 114, 111, 110>>>>,
     <<"matrix", <<109, 97, 116, 114, 105, 120>>>>,
     <<"max", <<109, 97, 120>>>>,
     <<"monoid", <<109, 111, 110, 111, 105, 100>>>>,
     <<"new", <<110, 101, 119>>>>,
     <<"other", <<111, 116, 104, 101, 114>>>>,
     <<"s", <<115>>>>,
     <<"scalar", <<115, 99, 97, 108, 97, 114>>>>,
     <<"selectop", <<115, 101, 108, 101, 99, 116, 111, 112>>>>,
     <<"semiring", <<115, 101, 109, 105, 114, 105, 110, 103>>>>,
     <<"setElement", <<115, 101, 116, 69, 108, 101, 109, 101, 110, 116>>>>,
     <<"size", <<115, 105, 122, 101>>>>,
     <<"t", <<116>>>>,
     <<"type", <<116, 121, 112, 101>>>>,
     <<"typedef", <<116, 121, 112, 101, 100, 101, 102>>>>,
     <<"uint64", <<117, 105, 110, 116, 54, 52>>>>,
     <<"unary", <<117, 110, 97, 114, 121>>>>,
     <<"vector", <<118, 101, 99, 116, 111, 114>>>>,
     <<"void", <<118, 111, 105, 100>>>>,
     <<"wait", <<119, 97, 105, 116>>>>,
     <<"{", <<123>>>>,
     <<"}", <<125>>>>
    }

CodeOf == [a \in {p[1] : p \in Spelling} |->
              (CHOOSE p \in Spelling : p[1] = a)[2]]

\* the code points of a text
Spell(t) == Flatten([i \in DOMAIN t |-> CodeOf[t[i]]])

\* s < t for two sequences of code points
RECURSIVE CodesLess(_, _)
CodesLess(s, t) ==
    IF t = <<>> THEN FALSE
    ELSE IF s = <<>> THEN TRUE
    ELSE IF s[1] = t[1] THEN CodesLess(Tail(s), Tail(t))
    ELSE s[1] < t[1]

\* s < t for two texts
StrLess(s, t) == CodesLess(Spell(s), Spell(t))

sort_key(string) == Replace(string, <<"8">>, <<"0", "8">>)

has_complex(string) ==
    Contains(string, <<"FC32">>) \/ Contains(string, <<"FC64">>)

\* sorted(vals, key=...) for a set vals, keyOf[x] being the key of x: Python
\* keeps elements of equal key in the order the set yields them, which for a
\* set of str changes from run to run (hash randomisation).  The result is
\* therefore any arrangement of vals in non-decreasing key order.
RECURSIVE SortedSet(_, _)
SortedSet(vals, keyOf) ==
    IF vals = {} THEN {<<>>}
    ELSE LET least == {x \in vals :
                          \A y \in vals : ~StrLess(keyOf[y], keyOf[x])}
         IN  UNION {{<<x>> \o r : r \in SortedSet(vals \ {x}, keyOf)} :
                        x \in least}

\* sorted(list, key=...) is stable: insertion after the last element whose
\* key is not greater
RECURSIVE InsertSorted(_, _, _)
InsertSorted(s, x, keyOf) ==
    IF s = <<>> THEN <<x>>
    ELSE IF StrLess(keyOf[x], keyOf[s[1]]) THEN <<x>> \o s
    ELSE <<s[1]>> \o InsertSorted(Tail(s), x, keyOf)

RECURSIVE SortedList(_, _)
SortedList(s, keyOf) ==
    IF s = <<>> THEN <<>>
    ELSE InsertSorted(SortedList(DropLast(s), keyOf), s[Len(s)], keyOf)

(***************************************************************************)
(* The parsed header: pycparser's AST, reduced to what the tool reads of   *)
(* it.  A node is a top-level declaration:                                 *)
(*   kind     "Decl" or "Typedef" (c_ast class of the node)                *)
(*   type     "FuncDecl", "Enum" or "Other" (class of node.type, for a     *)
(*            Typedef of node.type.type)                                   *)
(*   storage  node.storage                                                 *)
(*   rtype    for a FuncDecl, the text of its return type                  *)
(*   name     node.name                                                    *)
(*   words    for a one-line declaration, its text split at the blanks     *)
(*   fields   for an Enum, its enumerators as <<name, value>> pairs        *)
(***************************************************************************)
Node(kind, type, storage, rtype, name, words, fields) ==
    [kind |-> kind, type |-> type, storage |-> storage, rtype |-> rtype,
     name |-> name, words |-> words, fields |-> fields]

GrB_Info == <<"GrB", "_", "Info">>

Func(rtype, name, args) ==
    Node("Decl", "FuncDecl", <<"extern">>, rtype, name,
         <<<<"extern">>, rtype>> \o Split(name \o <<"(">> \o args \o <<")">>, " "),
         <<>>)

Extern(words, name) ==
    Node("Decl", "Other", <<"extern">>, <<>>, name, <<<<"extern">>>> \o words, <<>>)

Typedef(words, name) ==
    Node("Typedef", "Other", <<"typedef">>, <<>>, name,
         <<<<"typedef">>>> \o words, <<>>)

EnumTypedef(name, fields) ==
    Node("Typedef", "Enum", <<"typedef">>, <<>>, name, <<>>, fields)

\* extern GrB_Info GrB_finalize(void);
F_finalize == Func(GrB_Info, <<"GrB", "_", "finalize">>, <<"void">>)
\* extern GrB_Info GxB_kron(GrB_Matrix C);                       (deprecated)
F_kron == Func(GrB_Info, <<"GxB", "_", "kron">>,
               <<"GrB", "_", "Matrix", " ", "C">>)
\* extern GrB_Info GxB_Scalar_setElement_FC32(GxB_Scalar s);
F_setElement_FC32 ==
    Func(GrB_Info, <<"GxB", "_", "Scalar", "_", "setElement", "_", "FC32">>,
         <<"GxB", "_", "Scalar", " ", "s">>)
\* extern GrB_Info GB_Type_new(void);
F_GB_Type_new == Func(GrB_Info, <<"GB", "_", "Type", "_", "new">>, <<"void">>)
\* extern GrB_Info GxB_Foo_new(void);          (no group for "Foo")
F_Foo_new == Func(GrB_Info, <<"GxB", "_", "Foo", "_", "new">>, <<"void">>)
\* extern GrB_Type GrB_bar(void);               (does not return GrB_Info)
F_bar == Func(<<"GrB", "_", "Type">>, <<"GrB", "_", "bar">>, <<"void">>)

\* extern GrB_Type GrB_INT8;
O_INT8 == Extern(<<<<"GrB", "_", "Type">>, <<"GrB", "_", "INT", "8">>>>,
                 <<"GrB", "_", "INT", "8">>)
\* extern GrB_Type GrB_INT08;
O_INT08 == Extern(<<<<"GrB", "_", "Type">>, <<"GrB", "_", "INT", "0", "8">>>>,
                  <<"GrB", "_", "INT", "0", "8">>)
\* extern GrB_UnaryOp GxB_ABS_INT8;                               (deprecated)
O_ABS_INT8 ==
    Extern(<<<<"GrB", "_", "UnaryOp">>, <<"GxB", "_", "ABS", "_", "INT", "8">>>>,
           <<"GxB", "_", "ABS", "_", "INT", "8">>)
\* extern GrB_Type GxB_FC32;
O_FC32 == Extern(<<<<"GrB", "_", "Type">>, <<"GxB", "_", "FC32">>>>,
                 <<"GxB", "_", "FC32">>)
\* extern GxB_SelectOp GxB_TRIL;
O_TRIL == Extern(<<<<"GxB", "_", "SelectOp">>, <<"GxB", "_", "TRIL">>>>,
                 <<"GxB", "_", "TRIL">>)

\* extern const uint64_t *GrB_ALL;
K_ALL == Extern(<<<<"const">>, <<"uint64", "_", "t">>, <<"*", "GrB", "_", "ALL">>>>,
                <<"GrB", "_", "ALL">>)
\* extern const GxB_Format_Value GxB_FORMAT_DEFAULT;
K_FORMAT ==
    Extern(<<<<"const">>, <<"GxB", "_", "Format", "_", "Value">>,
             <<"GxB", "_", "FORMAT", "_", "DEFAULT">>>>,
           <<"GxB", "_", "FORMAT", "_", "DEFAULT">>)

\* typedef uint64_t GrB_Index;
T_Index == Typedef(<<<<"uint64", "_", "t">>, <<"GrB", "_", "Index">>>>,
                   <<"GrB", "_", "Index">>)
\* typedef double _Complex GxB_FC64_t;
T_FC64_t ==
    Typedef(<<<<"double">>, <<"_", "Complex">>, <<"GxB", "_", "FC64", "_", "t">>>>,
            <<"GxB", "_", "FC64", "_", "t">>)
\* typedef int size_t;                          (from the fake libc headers)
T_size_t == Typedef(<<<<"int">>, <<"size", "_", "t">>>>, <<"size", "_", "t">>)

\* typedef void (*GxB_unary_function)(void *);
TF_unary ==
    Typedef(<<<<"void">>,
              <<"(", "*", "GxB", "_", "unary", "_", "function", ")", "(", "void">>,
              <<"*", ")">>>>,
            <<"GxB", "_", "unary", "_", "function">>)
\* typedef void (*GxB_kron)(void);              (a deprecated name)
TF_kron ==
    Typedef(<<<<"void">>, <<"(", "*", "GxB", "_", "kron", ")", "(", "void", ")">>>>,
            <<"GxB", "_", "kron">>)

\* typedef enum { GrB_COMP = 0, GrB_SCMP = 1 } GrB_Desc_Value;
E_Desc_Value ==
    EnumTypedef(<<"GrB", "_", "Desc", "_", "Value">>,
                <<<<<<"GrB", "_", "COMP">>, <<"0">>>>,
                  <<<<"GrB", "_", "SCMP">>, <<"1">>>>>>)
\* typedef enum { GrB_TRAN = 0 } GrB_Desc_Value;      (the name a second time)
E_Desc_Value2 ==
    EnumTypedef(<<"GrB", "_", "Desc", "_", "Value">>,
                <<<<<<"GrB", "_", "TRAN">>, <<"0">>>>>>)
\* typedef enum { GxB_IS_HYPER = 6 } GxB_Option_Field;   (only deprecated fields)
E_Option_Field ==
    EnumTypedef(<<"GxB", "_", "Option", "_", "Field">>,
                <<<<<<"GxB", "_", "IS", "_", "HYPER">>, <<"6">>>>>>)
\* typedef enum { GxB_UDT_code = GxB_FC64_code, GxB_FC32_code = 1 } GxB_Code;
E_Code ==
    EnumTypedef(<<"GxB", "_", "Code">>,
                <<<<<<"GxB", "_", "UDT", "_", "code">>,
                    <<"GxB", "_", "FC64", "_", "code">>>>,
                  <<<<"GxB", "_", "FC32", "_", "code">>, <<"1">>>>>>)

\* extern GrB_Info other_init(void);            (a method of no known prefix)
F_other == Func(GrB_Info, <<"other", "_", "init">>, <<"void">>)
\* extern int errno;                            (an extern of no group)
X_errno == Extern(<<<<"int">>, <<"errno">>>>, <<"errno">>)
\* extern const int other_max;                  (a constant of no known prefix)
K_other == Extern(<<<<"const">>, <<"int">>, <<"other", "_", "max">>>>,
                  <<"other", "_", "max">>)
\* typedef enum { other_A = 0 } other_t;        (an enum of no known prefix)
E_other ==
    EnumTypedef(<<"other", "_", "t">>, <<<<<<"other", "_", "A">>, <<"0">>>>>>)

\* extern GrB_Type other_type(void);  (no known prefix, no GrB_Info returned)
F_other_type ==
    Func(<<"GrB", "_", "Type">>, <<"other", "_", "type">>, <<"void">>)

\* the declarations a modelled header is made of
Universe ==
    {F_finalize, F_kron, F_setElement_FC32, F_GB_Type_new, F_Foo_new, F_bar,
     O_INT8, O_INT08, O_ABS_INT8, O_FC32, O_TRIL, K_ALL, K_FORMAT,
     T_Index, T_FC64_t, T_size_t, TF_unary, TF_kron,
     E_Desc_Value, E_Desc_Value2, E_Option_Field, E_Code,
     F_other, X_errno, K_other, E_other, F_other_type}

\* the parsed headers of the model: FileAST.ext
ASTs == UNION {[1..n -> Universe] : n \in 0..MaxDecls}

(***************************************************************************)
(* c_generator.CGenerator, as far as the tool uses it.                     *)
(***************************************************************************)
\* visit_Enumerator: indent, name, " = ", value, ",\n"
GenEnumerator(f) ==
    <<" ", " ">> \o f[1] \o <<" ", "=", " ">> \o f[2] \o <<",", "\n">>

\* _generate_enum_body: the enumerators, the last ",\n" cut, then "\n"
GenEnumBody(fields) ==
    LET all == Flatten([i \in DOMAIN fields |-> GenEnumerator(fields[i])])
    IN  SubSeq(all, 1, Len(all) - 2) \o <<"\n">>

\* generator.visit(node) for a top-level declaration
GenVisit(node) ==
    IF node.type = "Enum"
    THEN <<"typedef", " ", "enum", " ", "\n", "{", "\n">>
             \o GenEnumBody(node.fields) \o <<"}", " ">> \o node.name
    ELSE Join(node.words, <<" ">>)

\* generator.visit(ast).splitlines(): visit_FileAST ends every declaration
\* with ";\n"
GenLines(ast) ==
    Flatten([i \in DOMAIN ast |-> SplitLines(GenVisit(ast[i]) \o <<";", "\n">>)])

\* VisitEnumTypedef: the text of every typedef of an enum, with ";"
EnumResults(ast) ==
    Flatten([i \in DOMAIN ast |->
                IF ast[i].kind = "Typedef" /\ ast[i].type = "Enum"
                THEN <<GenVisit(ast[i]) \o <<";">>>> ELSE <<>>])

(***************************************************************************)
(* Module-level tables.  DEPRECATED is the part of the source's set that   *)
(* the names of Universe can meet; DEFINES, CHAR_DEFINES and               *)
(* IGNORE_DEFINES are a few entries of the source's sets each.             *)
(***************************************************************************)
DEPRECATED ==
    {<<"GxB", "_", "IS", "_", "HYPER">>,
     <<"GrB", "_", "SCMP">>,
     <<"GxB", "_", "kron">>,
     <<"GxB", "_", "ABS", "_", "INT", "8">>}

DEFINES ==
    {<<"GxB", "_", "STDC", "_", "VERSION">>,
     <<"GxB", "_", "NTHREADS">>}

CHAR_DEFINES ==
    {<<"GxB", "_", "SPEC", "_", "ABOUT">>}

IGNORE_DEFINES ==
    {<<"GB", "_", "PUBLIC">>,
     <<"GxB", "_", "HYPER">>}

AUTO == <<"/* This file is automatically generated */">>

(***************************************************************************)
(* Results of a function that can raise: [ok |-> TRUE, value |-> v] when   *)
(* it returns v, [ok |-> FALSE, error |-> e] when it raises e.             *)
(***************************************************************************)
Return(v) == [ok |-> TRUE, value |-> v]
Raise(e) == [ok |-> FALSE, error |-> e]

(***************************************************************************)
(* get_groups.  Its local state is a record g: the lines of the header,    *)
(* the enum typedefs of the header, the set `seen` of lines claimed so     *)
(* far, the set `vals` of every group made so far, and whether every       *)
(* assertion met so far holds.  Each block of get_groups is an operator    *)
(* from the state before it to the state after it.                         *)
(***************************************************************************)
extern_GrB_Info == <<"extern", " ", "GrB", "_", "Info", " ">>
extern_const == <<"extern", " ", "const">>

IsTypedefOf(x, prefix) == Contains(x, <<"typedef">>) /\ Contains(x, <<prefix>>)

\* for val in vals: seen.update(val.splitlines())
EnumLines(vals) == UNION {Range(SplitLines(val)) : val \in vals}

\* lines, seen = set(), groups = {} and, from further down, enums
NoGroups(ast) ==
    [lines |-> Range(GenLines(ast)), enums |-> Range(EnumResults(ast)),
     seen |-> {}, asserts |-> TRUE,
     GxB_methods |-> {}, GrB_methods |-> {}, GB_methods |-> {},
     GrB_objects |-> {}, GxB_objects |-> {}, GxB_const |-> {},
     GrB_const |-> {}, GxB_typedef |-> {}, GrB_typedef |-> {},
     GrB_typedef_enums |-> {}, GxB_typedef_enums |-> {},
     GxB_typedef_funcs |-> {}, not_seen |-> {}]

GxB_methods_vals(g) ==
    LET vals == {x \in g.lines :
                    Contains(x, extern_GrB_Info \o <<"GxB">>)} \ g.seen
    IN  [g EXCEPT !.seen = @ \cup vals, !.GxB_methods = vals]

GrB_methods_vals(g) ==
    LET vals == {x \in g.lines :
                    Contains(x, extern_GrB_Info \o <<"GrB">>)} \ g.seen
    IN  [g EXCEPT !.seen = @ \cup vals, !.GrB_methods = vals]

GB_methods_vals(g) ==
    LET vals == {x \in g.lines :
                    Contains(x, extern_GrB_Info \o <<"GB">>)} \ g.seen
    IN  [g EXCEPT !.seen = @ \cup vals, !.GB_methods = vals]

\* missing_methods without the assertion
missing_methods_unchecked(g) == g

\* assert not missing_methods
missing_methods(g) ==
    LET missing == {x \in g.lines : Contains(x, extern_GrB_Info)} \ g.seen
    IN  [g EXCEPT !.asserts = @ /\ missing = {}]

\* GrB_objects_vals without "- seen"
GrB_objects_vals_unseen(g) ==
    LET vals == {x \in g.lines : Contains(x, <<"extern", " ", "GrB">>)}
    IN  [g EXCEPT !.seen = @ \cup vals, !.GrB_objects = vals]

GrB_objects_vals(g) ==
    LET vals == {x \in g.lines :
                    Contains(x, <<"extern", " ", "GrB">>)} \ g.seen
    IN  [g EXCEPT !.seen = @ \cup vals, !.GrB_objects = vals]

GxB_objects_vals(g) ==
    LET vals == {x \in g.lines :
                    Contains(x, <<"extern", " ", "GxB">>)} \ g.seen
    IN  [g EXCEPT !.seen = @ \cup vals, !.GxB_objects = vals]

GxB_const_vals(g) ==
    LET vals == {x \in g.lines : /\ Contains(x, extern_const)
                                 /\ Contains(x, <<"GxB">>)} \ g.seen
    IN  [g EXCEPT !.seen = @ \cup vals, !.GxB_const = vals]

GrB_const_vals(g) ==
    LET vals == {x \in g.lines : /\ Contains(x, extern_const)
                                 /\ Contains(x, <<"GrB">>)} \ g.seen
    IN  [g EXCEPT !.seen = @ \cup vals, !.GrB_const = vals]

\* assert not missing_const
missing_const(g) ==
    LET missing == {x \in g.lines : Contains(x, extern_const)} \ g.seen
    IN  [g EXCEPT !.asserts = @ /\ missing = {}]

GxB_typedef_vals(g) ==
    LET vals == {x \in g.lines : /\ IsTypedefOf(x, "GxB")
                                 /\ ~Contains(x, <<"(">>)} \ g.seen
    IN  [g EXCEPT !.seen = @ \cup vals, !.GxB_typedef = vals]

GrB_typedef_vals(g) ==
    LET vals == {x \in g.lines : /\ IsTypedefOf(x, "GrB")
                                 /\ ~Contains(x, <<"(">>)} \ g.seen
    IN  [g EXCEPT !.seen = @ \cup vals, !.GrB_typedef = vals]

\* assert not missing_typedefs; assert all(x.endswith(";") for x in seen)
missing_typedefs(g) ==
    LET missing == {x \in g.lines : /\ IsTypedefOf(x, "GB")
                                    /\ ~Contains(x, <<"(">>)} \ g.seen
    IN  [g EXCEPT !.asserts = /\ @
                              /\ missing = {}
                              /\ \A x \in g.seen : EndsWith(x, <<";">>)]

GrB_typedef_enums_vals(g) ==
    LET vals == {x \in g.enums : Contains(x, <<"}", " ", "GrB">>)}
    IN  [g EXCEPT !.seen = @ \cup EnumLines(vals), !.GrB_typedef_enums = vals]

GxB_typedef_enums_vals(g) ==
    LET vals == {x \in g.enums : Contains(x, <<"}", " ", "GxB">>)}
    IN  [g EXCEPT !.seen = @ \cup EnumLines(vals), !.GxB_typedef_enums = vals]

\* assert not missing_enums
missing_enums(g) ==
    LET missing == (g.enums \ g.GrB_typedef_enums) \ g.GxB_typedef_enums
    IN  [g EXCEPT !.asserts = @ /\ missing = {}]

GxB_typedef_funcs_vals(g) ==
    LET vals == {x \in g.lines : IsTypedefOf(x, "GxB")} \ g.seen
    IN  [g EXCEPT !.seen = @ \cup vals, !.GxB_typedef_funcs = vals]

\* assert not vals
GrB_typedef_funcs_vals(g) ==
    LET vals == {x \in g.lines : IsTypedefOf(x, "GrB")} \ g.seen
    IN  [g EXCEPT !.asserts = @ /\ vals = {}]

\* groups["not seen"], and the assertion on each of its lines
not_seen_vals(g) ==
    LET vals == g.lines \ g.seen
    IN  [g EXCEPT !.not_seen = vals,
                  !.asserts = /\ @
                              /\ \A x \in vals : ~Contains(x, <<"extern">>)]

\* the state of get_groups after its last block
GroupVals(ast) ==
    not_seen_vals(
    GrB_typedef_funcs_vals(
    GxB_typedef_funcs_vals(
    missing_enums(
    GxB_typedef_enums_vals(
    GrB_typedef_enums_vals(
    missing_typedefs(
    GrB_typedef_vals(
    GxB_typedef_vals(
    missing_const(
    GrB_const_vals(
    GxB_const_vals(
    GxB_objects_vals(
    GrB_objects_vals(
    missing_methods(
    GB_methods_vals(
    GrB_methods_vals(
    GxB_methods_vals(
    NoGroups(ast)))))))))))))))))))

\* key=sort_key
LineKey(vals) == [x \in vals |-> sort_key(x)]

\* key=lambda x: sort_key(x.rsplit("}", 1)[-1])
EnumKey(vals) == [x \in vals |-> sort_key(AfterLast(x, "}"))]

\* sorted(vals, key=sort_key)
SortedLines(vals) == SortedSet(vals, LineKey(vals))

\* sorted(vals, key=lambda x: sort_key(x.rsplit("}", 1)[-1]))
SortedEnums(vals) == SortedSet(vals, EnumKey(vals))

\* the dicts `groups` that the sets of v can be sorted into
SortedGroups(v) ==
    {[GxB_methods |-> g1, GrB_methods |-> g2, GB_methods |-> g3,
      GrB_objects |-> g4, GxB_objects |-> g5,
      GxB_const |-> g6, GrB_const |-> g7,
      GxB_typedef |-> g8, GrB_typedef |-> g9,
      GrB_typedef_enums |-> g10, GxB_typedef_enums |-> g11,
      GxB_typedef_funcs |-> g12, not_seen |-> g13] :
         g1 \in SortedLines(v.GxB_methods),
         g2 \in SortedLines(v.GrB_methods),
         g3 \in SortedLines(v.GB_methods),
         g4 \in SortedLines(v.GrB_objects),
         g5 \in SortedLines(v.GxB_objects),
         g6 \in SortedLines(v.GxB_const),
         g7 \in SortedLines(v.GrB_const),
         g8 \in SortedLines(v.GxB_typedef),
         g9 \in SortedLines(v.GrB_typedef),
         g10 \in SortedEnums(v.GrB_typedef_enums),
         g11 \in SortedEnums(v.GxB_typedef_enums),
         g12 \in SortedLines(v.GxB_typedef_funcs),
         g13 \in SortedLines(v.not_seen)}

\* the results get_groups can have on ast: it raises when an assertion
\* fails, and returns the sets as sorted lists otherwise
get_groups(ast) ==
    LET v == GroupVals(ast)
    IN  IF ~v.asserts THEN {Raise("AssertionError")}
        ELSE {Return(g) : g \in SortedGroups(v)}

(***************************************************************************)
(* get_group_info.  Each handler is a generator run to its end by list():  *)
(* it raises if any line of its group makes it raise, and otherwise        *)
(* yields an info record for every line it does not skip.                  *)
(***************************************************************************)
Info(line) == [text |-> line]

\* extern, const, ctype, name = line.split(" ")
ConstantName(line) ==
    Replace(DropLast(Split(line, " ")[4]), <<"(", "void", ")">>, <<"(", ")">>)

ConstantError(line) ==
    LET parts == Split(line, " ")
    IN  IF Len(parts) # 4 THEN "ValueError"
        ELSE IF ~EndsWith(parts[4], <<";">>) \/ parts[1] # <<"extern">>
                    \/ parts[2] # <<"const">>
             THEN "AssertionError"
             ELSE "none"

ConstantKept(line, skip_complex) ==
    /\ ConstantName(line) \notin DEPRECATED
    /\ ~(skip_complex /\ has_complex(line))

\* extern, ctype, name = line.split(" ")
ObjectName(line) == DropLast(Split(line, " ")[3])

ObjectError(line) ==
    LET parts == Split(line, " ")
    IN  IF Len(parts) # 3 THEN "ValueError"
        ELSE IF ~EndsWith(parts[3], <<";">>) \/ parts[1] # <<"extern">>
             THEN "AssertionError"
             ELSE "none"

ObjectKept(line, skip_complex) ==
    /\ ObjectName(line) \notin DEPRECATED
    /\ ~(skip_complex /\ has_complex(line))

\* typedef, *ctypes, name = line.split(" ")
TypedefName(line) ==
    LET parts == Split(line, " ") IN DropLast(parts[Len(parts)])

TypedefError(line) ==
    LET parts == Split(line, " ")
    IN  IF Len(parts) < 2 THEN "ValueError"
        ELSE IF parts[1] # <<"typedef">> \/ ~EndsWith(parts[Len(parts)], <<";">>)
             THEN "AssertionError"
             ELSE "none"

TypedefKept(line, skip_complex) ==
    /\ TypedefName(line) \notin DEPRECATED
    /\ ~(skip_complex /\ has_complex(line))

TypedefFuncError(line) ==
    IF EndsWith(line, <<";">>) /\ StartsWith(line, <<"typedef">>)
    THEN "none" ELSE "AssertionError"

TypedefFuncKept(line, skip_complex) == ~(skip_complex /\ has_complex(line))

\* text.replace("enum \n", "enum\n")
EnumText(text) == Replace(text, <<"enum", " ", "\n">>, <<"enum", "\n">>)

\* the unpacking typedef, bracket, *fields, name = text.splitlines() of the
\* lines ls of an enum, and the assertions on its parts
EnumFrameError(ls) ==
    IF Len(ls) < 3 THEN "ValueError"
    ELSE IF \/ Strip(ls[1]) # <<"typedef", " ", "enum">>
            \/ ls[2] # <<"{">>
            \/ ~StartsWith(ls[Len(ls)], <<"}">>)
            \/ ~EndsWith(ls[Len(ls)], <<";">>)
         THEN "AssertionError"
         ELSE "none"

\* name = name[1:-1].strip()
EnumName(ls) == Strip(DropFirstLast(ls[Len(ls)]))

\* *fields
EnumFields(ls) == SubSeq(ls, 3, Len(ls) - 1)

\* the enum is not skipped for its name
EnumNameKept(name, skip_complex) ==
    /\ name \notin DEPRECATED
    /\ ~(skip_complex /\ has_complex(name))

\* field without its trailing comma, stripped
FieldText(field) ==
    Strip(IF EndsWith(field, <<",">>) THEN DropLast(field) ELSE field)

\* cfieldname, eq, val = field.split(" ")
FieldError(field) ==
    LET parts == Split(FieldText(field), " ")
    IN  IF Len(parts) # 3 THEN "ValueError"
        ELSE IF parts[2] # <<"=">> THEN "AssertionError"
        ELSE "none"

FieldKept(field, skip_complex) ==
    LET cfieldname == Split(FieldText(field), " ")[1]
    IN  /\ cfieldname \notin DEPRECATED
        /\ ~(skip_complex /\ has_complex(cfieldname))

\* the first error of a sequence of error names, "none" when there is none
RECURSIVE FirstError(_)
FirstError(errs) ==
    IF errs = <<>> THEN "none"
    ELSE IF errs[1] # "none" THEN errs[1]
    ELSE FirstError(Tail(errs))

\* what one pass of the loop raises on the lines ls of an enum
EnumError(ls, skip_complex) ==
    IF EnumFrameError(ls) # "none" THEN EnumFrameError(ls)
    ELSE IF ~EnumNameKept(EnumName(ls), skip_complex) THEN "none"
    ELSE FirstError([i \in DOMAIN EnumFields(ls) |->
                        FieldError(EnumFields(ls)[i])])

\* NewFields without the two tests that skip a field
NewFields_unfiltered(fields, skip_complex) ==
    [i \in DOMAIN fields |-> FieldText(fields[i])]

\* new_fields
NewFields(fields, skip_complex) ==
    LET kept == SelectSeq(fields, LAMBDA f : FieldKept(f, skip_complex))
    IN  [i \in DOMAIN kept |-> FieldText(kept[i])]

\* the pass yields an info
EnumKept(ls, skip_complex) ==
    /\ EnumNameKept(EnumName(ls), skip_complex)
    /\ NewFields(EnumFields(ls), skip_complex) # <<>>

\* "\n".join(lines): typedef, bracket, the new fields indented and
\* separated by commas, cname
EnumLayout(ls, new_fields) ==
    Join(<<Strip(ls[1]), ls[2]>>
             \o [i \in DOMAIN new_fields |->
                    <<" ", " ">> \o new_fields[i]
                        \o (IF i = Len(new_fields) THEN <<>> ELSE <<",">>)]
             \o <<ls[Len(ls)]>>,
         <<"\n">>)

\* the info record of an enum that is kept
EnumInfo(text, ls, skip_complex) ==
    [orig_text |-> text,
     text |-> EnumLayout(ls, NewFields(EnumFields(ls), skip_complex))]

\* list(handle_constants(group))
handle_constants(group, skip_complex) ==
    LET err == FirstError([i \in DOMAIN group |-> ConstantError(group[i])])
        kept == SelectSeq(group, LAMBDA l : ConstantKept(l, skip_complex))
    IN  IF err # "none" THEN Raise(err)
        ELSE Return([i \in DOMAIN kept |-> Info(kept[i])])

\* list(handle_objects(group))
handle_objects(group, skip_complex) ==
    LET err == FirstError([i \in DOMAIN group |-> ObjectError(group[i])])
        kept == SelectSeq(group, LAMBDA l : ObjectKept(l, skip_complex))
    IN  IF err # "none" THEN Raise(err)
        ELSE Return([i \in DOMAIN kept |-> Info(kept[i])])

\* list(handle_enums(group))
handle_enums(group, skip_complex) ==
    LET texts == [i \in DOMAIN group |-> EnumText(group[i])]
        ls == [i \in DOMAIN group |-> SplitLines(texts[i])]
        err == FirstError([i \in DOMAIN group |->
                              EnumError(ls[i], skip_complex)])
        kept == SelectSeq([i \in DOMAIN group |-> i],
                          LAMBDA i : EnumKept(ls[i], skip_complex))
    IN  IF err # "none" THEN Raise(err)
        ELSE Return([k \in DOMAIN kept |->
                        EnumInfo(texts[kept[k]], ls[kept[k]], skip_complex)])

\* list(handle_typedefs(group))
handle_typedefs(group, skip_complex) ==
    LET err == FirstError([i \in DOMAIN group |-> TypedefError(group[i])])
        kept == SelectSeq(group, LAMBDA l : TypedefKept(l, skip_complex))
    IN  IF err # "none" THEN Raise(err)
        ELSE Return([i \in DOMAIN kept |-> Info(kept[i])])

\* list(handle_typedef_funcs(group))
handle_typedef_funcs(group, skip_complex) ==
    LET err == FirstError([i \in DOMAIN group |-> TypedefFuncError(group[i])])
        kept == SelectSeq(group, LAMBDA l : TypedefFuncKept(l, skip_complex))
    IN  IF err # "none" THEN Raise(err)
        ELSE Return([i \in DOMAIN kept |-> Info(kept[i])])

\* FuncDeclVisitor: the extern function declarations of the header
ExternFunctions(ast) ==
    SelectSeq(ast, LAMBDA node : /\ node.kind = "Decl"
                                 /\ node.type = "FuncDecl"
                                 /\ node.storage = <<"extern">>)

\* [node for node in visitor.functions if node.name.startswith(prefix + "_")]
NodesOf(ast, prefix) ==
    SelectSeq(ExternFunctions(ast),
              LAMBDA node : StartsWith(node.name, <<prefix, "_">>))

\* the naming scheme of handle_function_node, as <<key, group>> pairs
GroupTable ==
    {<<<<"GrB", "_", "Matrix">>, <<"matrix">>>>,
     <<<<"GrB", "_", "Vector">>, <<"vector">>>>,
     <<<<"GxB", "_", "Scalar">>, <<"scalar">>>>,
     <<<<"SelectOp">>, <<"selectop">>>>,
     <<<<"BinaryOp">>, <<"binary">>>>,
     <<<<"Desc">>, <<"descriptor">>>>,
     <<<<"Descriptor">>, <<"descriptor">>>>,
     <<<<"Monoid">>, <<"monoid">>>>,
     <<<<"Semiring">>, <<"semiring">>>>,
     <<<<"Type">>, <<"type">>>>,
     <<<<"UnaryOp">>, <<"unary">>>>,
     <<<<"getVersion">>, <<"core">>>>,
     <<<<"Global">>, <<"core">>>>,
     <<<<"cuda">>, <<"core">>>>,
     <<<<"finalize">>, <<"core">>>>,
     <<<<"init">>, <<"core">>>>,
     <<<<"wait">>, <<"core">>>>}

\* text = generator.visit(node) + ";"
FunctionText(node) == GenVisit(node) \o <<";">>

\* handle_function_node returns None
FunctionSkipped(node, skip_complex) ==
    \/ node.name \in DEPRECATED
    \/ skip_complex /\ has_complex(FunctionText(node))

\* the group is decided by the text of the declaration
GroupByText(text) ==
    \/ Contains(text, <<"GrB", "_", "Matrix">>)
    \/ Contains(text, <<"GrB", "_", "Vector">>)
    \/ Contains(text, <<"GxB", "_", "Scalar">>)

FunctionError(node, skip_complex) ==
    IF node.rtype # GrB_Info THEN "ValueError"
    ELSE IF FunctionSkipped(node, skip_complex) THEN "none"
    ELSE IF GroupByText(FunctionText(node)) THEN "none"
    ELSE LET parts == SplitN(node.name, "_", 2)
         IN  IF Len(parts) < 2 THEN "IndexError"
             ELSE IF \A p \in GroupTable : p[1] # parts[2] THEN "KeyError"
             ELSE "none"

FunctionGroup(node) ==
    LET text == FunctionText(node)
    IN  IF Contains(text, <<"GrB", "_", "Matrix">>) THEN <<"matrix">>
        ELSE IF Contains(text, <<"GrB", "_", "Vector">>) THEN <<"vector">>
        ELSE IF Contains(text, <<"GxB", "_", "Scalar">>) THEN <<"scalar">>
        ELSE (CHOOSE p \in GroupTable : p[1] = SplitN(node.name, "_", 2)[2])[2]

handle_function_node(node) ==
    [name |-> node.name, group |-> FunctionGroup(node), node |-> node,
     text |-> FunctionText(node)]

\* [x for x in (handle_function_node(node) for node in nodes) if x is not None]
handle_functions(nodes, skip_complex) ==
    LET err == FirstError([i \in DOMAIN nodes |->
                              FunctionError(nodes[i], skip_complex)])
        kept == SelectSeq(nodes, LAMBDA n : ~FunctionSkipped(n, skip_complex))
    IN  IF err # "none" THEN Raise(err)
        ELSE Return([i \in DOMAIN kept |-> handle_function_node(kept[i])])

\* sorted(funcs, key=lambda x: sort_key(x["text"]))
SortedFunctions(funcs) ==
    SortedList(funcs, [x \in Range(funcs) |-> sort_key(x.text)])

\* CountsAgree with the first assertion only
CountsAgree_first_only(groups, ast) ==
    Len(NodesOf(ast, "GrB")) = Len(groups.GrB_methods)

\* the three assertions on the numbers of methods
CountsAgree(groups, ast) ==
    /\ Len(NodesOf(ast, "GrB")) = Len(groups.GrB_methods)
    /\ Len(NodesOf(ast, "GxB")) = Len(groups.GxB_methods)
    /\ Len(NodesOf(ast, "GB")) = Len(groups.GB_methods)

\* the exception of the first of the results rs that is one
ErrorOf(rs) ==
    FirstError([i \in DOMAIN rs |-> IF rs[i].ok THEN "none" ELSE rs[i].error])

\* rv, from the results `first` of the handlers of the line groups, in the
\* order they run, and the results `last` of handle_function_node on the
\* nodes of each prefix: the handlers run first, then come the assertions
\* on the numbers of methods, then the functions
GroupInfo(groups, ast, first, last) ==
    IF ErrorOf(first) # "none" THEN Raise(ErrorOf(first))
    ELSE IF ~CountsAgree(groups, ast) THEN Raise("AssertionError")
    ELSE IF ErrorOf(last) # "none" THEN Raise(ErrorOf(last))
    ELSE Return([GrB_const |-> first[1].value, GxB_const |-> first[2].value,
                 GrB_objects |-> first[3].value,
                 GxB_objects |-> first[4].value,
                 GrB_typedef_enums |-> first[5].value,
                 GxB_typedef_enums |-> first[6].value,
                 GrB_typedef |-> first[7].value,
                 GxB_typedef |-> first[8].value,
                 GxB_typedef_funcs |-> first[9].value,
                 GrB_methods |-> SortedFunctions(last[1].value),
                 GxB_methods |-> SortedFunctions(last[2].value),
                 GB_methods |-> SortedFunctions(last[3].value),
                 not_seen |-> groups.not_seen])

get_group_info(groups, ast, skip_complex) ==
    GroupInfo(groups, ast,
              <<handle_constants(groups.GrB_const, skip_complex),
                handle_constants(groups.GxB_const, skip_complex),
                handle_objects(groups.GrB_objects, skip_complex),
                handle_objects(groups.GxB_objects, skip_complex),
                handle_enums(groups.GrB_typedef_enums, skip_complex),
                handle_enums(groups.GxB_typedef_enums, skip_complex),
                handle_typedefs(groups.GrB_typedef, skip_complex),
                handle_typedefs(groups.GxB_typedef, skip_complex),
                handle_typedef_funcs(groups.GxB_typedef_funcs, skip_complex)>>,
              <<handle_functions(NodesOf(ast, "GrB"), skip_complex),
                handle_functions(NodesOf(ast, "GxB"), skip_complex),
                handle_functions(NodesOf(ast, "GB"), skip_complex)>>)

\* A header file as pycparser sees it: C with the top-level declarations
\* ext, or a text that is no C.
CFile(ext) == [c |-> TRUE, ext |-> ext]
Garbage == [c |-> FALSE, ext |-> <<>>]

\* get_ast: parse_file raises on a text that is no C
get_ast(content) == IF content.c THEN Return(content.ext) ELSE Raise("ParseError")

\* the results parse_header can have on the processed header
parse_header(content, skip_complex) ==
    LET ast == get_ast(content)
    IN  IF ~ast.ok THEN {ast}
        ELSE {IF g.ok THEN get_group_info(g.value, ast.value, skip_complex)
                      ELSE g :
                 g \in get_groups(ast.value)}

(***************************************************************************)
(* create_header_text and create_source_text.  A comment line of the       *)
(* generated files is one atom.                                            *)
(***************************************************************************)
Texts(group) == [i \in DOMAIN group |-> group[i].text]

\* the keys of groupby("group", group), in the order they are first met
RECURSIVE GroupNames(_)
GroupNames(group) ==
    IF group = <<>> THEN <<>>
    ELSE LET rest == GroupNames(DropLast(group))
             name == group[Len(group)].group
         IN  IF name \in Range(rest) THEN rest ELSE rest \o <<name>>

\* handle_funcs: for every group name in sorted order an empty line, a
\* comment, and the functions of that group in the order of the list
handle_funcs(group) ==
    LET names == GroupNames(group)
        sorted == SortedList(names, [n \in Range(names) |-> sort_key(n)])
    IN  Flatten([i \in DOMAIN sorted |->
                    <<<<>>, <<"/* ">> \o sorted[i] \o <<" */">>>>
                        \o Texts(SelectSeq(group,
                                           LAMBDA x : x.group = sorted[i]))])

\* f"#define {item} ..." for every item of the sorted defines
DefineLines(order) ==
    [i \in DOMAIN order |-> <<"#", "define", " ">> \o order[i] \o <<" ", "...">>]

\* f"extern char *{item}_STR;" for every item of the sorted char_defines

CharDefineLines(order) ==
    [i \in DOMAIN order |->
        <<"extern", " ", "char", " ", "*">> \o order[i] \o <<"_", "STR", ";">>]

\* every empty line after an enum: text.append(group["text"]); text.append("")
EnumBlock(group) ==
    Flatten([i \in DOMAIN group |-> <<group[i].text, <<>>>>])

\* the texts create_header_text can return for groups
create_header_text(groups) ==
    {<<AUTO>>
        \o <<<<"/* GrB typedefs */">>>> \o Texts(groups.GrB_typedef) \o <<<<>>>>
        \o <<<<"/* GxB typedefs */">>>> \o Texts(groups.GxB_typedef) \o <<<<>>>>
        \o <<<<"/* GxB typedefs (functions) */">>>>
        \o Texts(groups.GxB_typedef_funcs) \o <<<<>>>>
        \o <<<<"/* GrB enums */">>>> \o EnumBlock(groups.GrB_typedef_enums)
        \o <<<<"/* GxB enums */">>>> \o EnumBlock(groups.GxB_typedef_enums)
        \o <<<<"/* GrB consts */">>>> \o Texts(groups.GrB_const) \o <<<<>>>>
        \o <<<<"/* GxB consts */">>>> \o Texts(groups.GxB_const) \o <<<<>>>>
        \o <<<<"/* GrB objects */">>>>
        \o Texts(SelectSeq(groups.GrB_objects,
                           LAMBDA x : ~Contains(x.text, <<"GxB">>)))
        \o <<<<>>>>
        \o <<<<"/* GrB objects (extended) */">>>>
        \o Texts(SelectSeq(groups.GrB_objects,
                           LAMBDA x : Contains(x.text, <<"GxB">>)))
        \o <<<<>>>>
        \o <<<<"/* GxB objects */">>>> \o Texts(groups.GxB_objects)
        \o <<<<>>, <<"/****************">>, <<"* GrB functions *">>,
             <<"****************/">>>>
        \o handle_funcs(groups.GrB_methods)
        \o <<<<>>, <<"/***************">>, <<"* GB functions *">>,
             <<"***************/">>>>
        \o handle_funcs(groups.GB_methods)
        \o <<<<>>, <<"/****************">>, <<"* GxB functions *">>,
             <<"****************/">>>>
        \o handle_funcs(groups.GxB_methods)
        \o <<<<>>, <<"/* int DEFINES */">>>> \o DefineLines(d)
        \o <<<<>>, <<"/* char* DEFINES */">>>> \o CharDefineLines(c) :
     d \in SortedSet(DEFINES, LineKey(DEFINES)),
     c \in SortedSet(CHAR_DEFINES, LineKey(CHAR_DEFINES))}

\* the texts create_source_text can return
create_source_text ==
    {<<AUTO, <<"#", "include", " ", "\"GraphBLAS.h\"">>>>
        \o [i \in DOMAIN c |->
               <<"char", " ", "*">> \o c[i] \o <<"_", "STR", " ", "=", " ">>
                   \o c[i] \o <<";">>] :
     c \in SortedSet(CHAR_DEFINES, LineKey(CHAR_DEFINES))}

\* f.write("\n".join(text))
FileText(text) == Join(text, <<"\n">>)

(***************************************************************************)
(* The #define directives of the copied header.  A directive is its name   *)
(* and the character that follows the name: a blank for an object-like     *)
(* macro, "(" for a function-like one.                                     *)
(***************************************************************************)
Directive(name, next) == [name |-> name, next |-> next]

\* every expected define and every ignored one, as object-like macros
BaseDirectives ==
    {Directive(n, " ") : n \in (DEFINES \cup CHAR_DEFINES) \cup IGNORE_DEFINES}

\* #define GxB_NTHREADS 5: the expected define a modelled header may lack
D_NTHREADS == Directive(<<"GxB", "_", "NTHREADS">>, " ")
\* #define GxB_NEW_OPTION 7                  (in none of the three tables)
D_NEW_OPTION == Directive(<<"GxB", "_", "NEW", "_", "OPTION">>, " ")
\* #define GxB_VERSION(major,minor,sub) ...  (in none of the three tables)
D_VERSION == Directive(<<"GxB", "_", "VERSION">>, "(")
\* #define GxB_NTHREADS(x) ...               (an expected name, as a macro)
D_NTHREADS_MACRO == Directive(<<"GxB", "_", "NTHREADS">>, "(")

ExtraDirectives == {D_NEW_OPTION, D_VERSION, D_NTHREADS_MACRO}

\* the directive sets of the modelled headers
DirectiveSets ==
    {(BaseDirectives \ m) \cup x :
        m \in SUBSET {D_NTHREADS},
        x \in {e \in SUBSET ExtraDirectives : Cardinality(e) <= MaxDirectives}}

\* define_pattern = r"#define\s+\w+\s+": the name must be followed by white
\* space
PatternMatches(d) == IsSpace(d.next)

\* {x[len("#define"):].strip() for x in define_pattern.findall(text)}
FoundDefines(directives) == {d.name : d \in {e \in directives : PatternMatches(e)}}

\* extra_defines with the operands of the difference swapped
extra_defines_swapped(defines) == defines \ (DEFINES \cup CHAR_DEFINES)

extra_defines(defines) == (DEFINES \cup CHAR_DEFINES) \ defines

\* unknown_defines with the first two operands swapped
unknown_defines_swapped(defines) ==
    ((DEFINES \ defines) \ CHAR_DEFINES) \ IGNORE_DEFINES

unknown_defines(defines) ==
    ((defines \ DEFINES) \ CHAR_DEFINES) \ IGNORE_DEFINES

\* sorted(names): plain code point order
NameKey(names) == [x \in names |-> x]

(***************************************************************************)
(* The run of main().                                                      *)
(***************************************************************************)
VARIABLES
    pc,                  \* the statement main() is at
    input_exists,        \* os.path.exists(args.graphblas)
    orig_h,              \* GraphBLAS-orig.h
    processed_h,         \* GraphBLAS-processed.h
    final_h,             \* suitesparse_graphblas.h
    final_no_complex_h,  \* suitesparse_graphblas_no_complex.h
    source_c,            \* source.c
    groups,              \* local of main()
    groups_no_complex,   \* local of main()
    defines_read,        \* the directives of the text read in step 6
    console,             \* what was printed
    error                \* the exception that ended the run

files == <<orig_h, processed_h, final_h, final_no_complex_h, source_c>>
locals == <<groups, groups_no_complex, defines_read>>
vars == <<pc, input_exists, files, locals, console, error>>

Absent == [exists |-> FALSE, content |-> <<>>]
File(content) == [exists |-> TRUE, content |-> content]
Unbound == Raise("unbound")
NoError == [raised |-> FALSE, type |-> "none", names |-> <<>>]
Msg(kind, names) == [kind |-> kind, names |-> names]

\* the contents the preprocessor can leave in GraphBLAS-processed.h
ProcessedContents == {CFile(ast) : ast \in ASTs} \cup {Garbage}

Init ==
    /\ pc = "copy"
    /\ input_exists \in BOOLEAN
    /\ orig_h = Absent
    /\ processed_h = Absent
    /\ final_h = Absent
    /\ final_no_complex_h = Absent
    /\ source_c = Absent
    /\ groups = Unbound
    /\ groups_no_complex = Unbound
    /\ defines_read = {}
    /\ console = <<>>
    /\ error = NoError

\* raise: the run ends with the exception
Fail(type, names) ==
    /\ pc' = "failed"
    /\ error' = [raised |-> TRUE, type |-> type, names |-> names]

\* CopyOriginal without the test that the input exists
CopyOriginal_unchecked ==
    /\ pc = "copy"
    /\ console' = Append(console, Msg("Step 1", <<>>))
    /\ orig_h' = File(<<>>)
    /\ pc' = "preprocess"
    /\ UNCHANGED <<input_exists, processed_h, final_h, final_no_complex_h,
                   source_c, locals, error>>

\* Step 1: copy the original header next to the tool
CopyOriginal ==
    /\ pc = "copy"
    /\ console' = Append(console, Msg("Step 1", <<>>))
    /\ IF ~input_exists
       THEN Fail("FileNotFoundError", <<>>) /\ UNCHANGED orig_h
       ELSE /\ orig_h' = File(<<>>)
            /\ pc' = "preprocess"
            /\ UNCHANGED error
    /\ UNCHANGED <<input_exists, processed_h, final_h, final_no_complex_h,
                   source_c, locals>>

\* Step 2: gcc -E ... | sed ... > GraphBLAS-processed.h, through the shell
RunPreprocessor ==
    /\ pc = "preprocess"
    /\ console' = Append(console, Msg("Step 2", <<>>))
    /\ \E returncode \in {0, 1}, content \in ProcessedContents :
          IF returncode # 0
          THEN /\ content = Garbage
               /\ processed_h' = File(content)
               /\ Fail("RuntimeError", <<>>)
          ELSE /\ processed_h' = File(content)
               /\ pc' = "parse"
               /\ UNCHANGED error
    /\ UNCHANGED <<input_exists, orig_h, final_h, final_no_complex_h,
                   source_c, locals>>

\* Step 3, first half: groups = parse_header(processed_h, skip_complex=False)
ParseHeader ==
    /\ pc = "parse"
    /\ console' = Append(console, Msg("Step 3", <<>>))
    /\ \E r \in parse_header(processed_h.content, FALSE) :
          IF r.ok
          THEN groups' = r /\ pc' = "emit" /\ UNCHANGED error
          ELSE Fail(r.error, <<>>) /\ UNCHANGED groups
    /\ UNCHANGED <<input_exists, files, groups_no_complex, defines_read>>

\* Step 3, second half: write create_header_text(groups) to final_h
WriteHeader ==
    /\ pc = "emit"
    /\ \E text \in create_header_text(groups.value) :
          final_h' = File(FileText(text))
    /\ pc' = "parse_no_complex"
    /\ UNCHANGED <<input_exists, orig_h, processed_h, final_no_complex_h,
                   source_c, locals, console, error>>

\* Step 4, first half: parse_header(processed_h, skip_complex=True)
ParseHeaderNoComplex ==
    /\ pc = "parse_no_complex"
    /\ console' = Append(console, Msg("Step 4", <<>>))
    /\ \E r \in parse_header(processed_h.content, TRUE) :
          IF r.ok
          THEN groups_no_complex' = r /\ pc' = "emit_no_complex"
                   /\ UNCHANGED error
          ELSE Fail(r.error, <<>>) /\ UNCHANGED groups_no_complex
    /\ UNCHANGED <<input_exists, files, groups, defines_read>>

\* Step 4, second half: write the header without complex types
WriteHeaderNoComplex ==
    /\ pc = "emit_no_complex"
    /\ \E text \in create_header_text(groups_no_complex.value) :
          final_no_complex_h' = File(FileText(text))
    /\ pc' = "source"
    /\ UNCHANGED <<input_exists, orig_h, processed_h, final_h, source_c,
                   locals, console, error>>

\* WriteSource without the write
WriteSource_unwritten ==
    /\ pc = "source"
    /\ console' = Append(console, Msg("Step 5", <<>>))
    /\ pc' = "check"
    /\ UNCHANGED <<input_exists, files, locals, error>>

\* Step 5: write source.c
WriteSource ==
    /\ pc = "source"
    /\ console' = Append(console, Msg("Step 5", <<>>))
    /\ \E text \in create_source_text : source_c' = File(FileText(text))
    /\ pc' = "check"
    /\ UNCHANGED <<input_exists, orig_h, processed_h, final_h,
                   final_no_complex_h, locals, error>>

\* the messages of step 6 before it raises or succeeds
Warnings(defines) ==
    IF extra_defines(defines) = {} THEN {<<>>}
    ELSE {<<Msg("WARNING", names)>> :
             names \in SortedSet(extra_defines(defines),
                                 NameKey(extra_defines(defines)))}

\* CheckDefines printing the unknown defines instead of raising
CheckDefines_no_raise ==
    /\ pc = "check"
    /\ \E directives \in DirectiveSets :
          LET defines == FoundDefines(directives)
          IN  /\ defines_read' = directives
              /\ \E w \in Warnings(defines) :
                    console' = Append(console, Msg("Step 6", <<>>)) \o w
                                   \o <<Msg("Success!", <<>>)>>
    /\ pc' = "success"
    /\ UNCHANGED <<input_exists, files, groups, groups_no_complex, error>>

\* Step 6: check the #define names of the copied header
CheckDefines ==
    /\ pc = "check"
    /\ \E directives \in DirectiveSets :
          LET defines == FoundDefines(directives)
              unknown == unknown_defines(defines)
          IN  /\ defines_read' = directives
              /\ \E w \in Warnings(defines) :
                    IF unknown # {}
                    THEN /\ console' = Append(console, Msg("Step 6", <<>>)) \o w
                         /\ \E names \in SortedSet(unknown, NameKey(unknown)) :
                               Fail("ValueError", names)
                    ELSE /\ console' = Append(console, Msg("Step 6", <<>>)) \o w
                                          \o <<Msg("Success!", <<>>)>>
                         /\ pc' = "success"
                         /\ UNCHANGED error
    /\ UNCHANGED <<input_exists, files, groups, groups_no_complex>>

Next ==
    \/ CopyOriginal
    \/ RunPreprocessor
    \/ ParseHeader
    \/ WriteHeader
    \/ ParseHeaderNoComplex
    \/ WriteHeaderNoComplex
    \/ WriteSource
    \/ CheckDefines

Spec == Init /\ [][Next]_vars

(***************************************************************************)
(* Properties.                                                             *)
(***************************************************************************)
\* the declarations of the processed header, once it is written and is C
Parsed == processed_h.exists /\ processed_h.content.c
Ext == processed_h.content.ext

\* the line-based groups of get_groups
NamedGroups(g) ==
    <<g.GxB_methods, g.GrB_methods, g.GB_methods, g.GrB_objects,
      g.GxB_objects, g.GxB_const, g.GrB_const, g.GxB_typedef, g.GrB_typedef,
      g.GxB_typedef_funcs>>

NoDuplicates(s) == \A i, j \in DOMAIN s : s[i] = s[j] => i = j

\* g is a partition of the lines of ast
IsPartition(g, ast) ==
    LET lines == Range(GenLines(ast))
        named == NamedGroups(g)
        enumlines == EnumLines(Range(g.GrB_typedef_enums)
                                   \cup Range(g.GxB_typedef_enums))
        claimed == UNION {Range(named[i]) : i \in DOMAIN named} \cup enumlines
    IN  /\ \A i, j \in DOMAIN named :
               i # j => Range(named[i]) \cap Range(named[j]) = {}
        /\ \A i \in DOMAIN named : NoDuplicates(named[i])
        /\ NoDuplicates(g.not_seen)
        /\ Range(g.not_seen) \cap claimed = {}
        /\ lines \ claimed = Range(g.not_seen)

\* C1: whenever get_groups returns, the line-based named groups are pairwise
\* disjoint, no line claimed by a named group or by a grouped enum typedef
\* is in "not seen", and every line claimed by none of them is in "not
\* seen", each exactly once.
C1_GroupsPartitionLines ==
    (pc = "parse" /\ Parsed) =>
        \A g \in get_groups(Ext) : g.ok => IsPartition(g.value, Ext)

\* C1 witness: get_groups has returned for a header with a line in a named
\* group and a line in "not seen".
C1_Witness ==
    /\ pc = "emit"
    /\ groups.value.not_seen # <<>>
    /\ \E i \in 1..10 : NamedGroups(GroupVals(Ext))[i] # {}

\* the text of a declaration as get_groups and get_group_info hold it
DeclText(node) ==
    IF node.type = "Enum" THEN EnumText(GenVisit(node) \o <<";">>)
    ELSE GenVisit(node) \o <<";">>

\* the declaration is in a group other than "not seen"
Classified(node, ast) ==
    LET v == GroupVals(ast)
    IN  IF node.type = "Enum"
        THEN GenVisit(node) \o <<";">>
                 \in v.GrB_typedef_enums \cup v.GxB_typedef_enums
        ELSE DeclText(node)
                 \in UNION {NamedGroups(v)[i] : i \in 1..10}

\* the declarations that are to be written: the classified ones but the
\* deprecated and, in complex-skip mode, the complex ones
Expected(ast, skip_complex) ==
    {DeclText(ast[i]) :
        i \in {j \in DOMAIN ast :
                  /\ Classified(ast[j], ast)
                  /\ ast[j].name \notin DEPRECATED
                  /\ ~(skip_complex /\ has_complex(DeclText(ast[j])))}}

\* the declarations of the groups that create_header_text writes
Emitted(rv) ==
    UNION {Range(Texts(NamedGroups(rv)[i])) : i \in 1..10}
        \cup {e.orig_text : e \in Range(rv.GrB_typedef_enums)
                                     \cup Range(rv.GxB_typedef_enums)}

\* C2: the declarations written into each generated header are the
\* classified declarations of the input minus exactly the deprecated ones
\* and, with skip_complex, minus exactly those that reference FC32 or FC64.
C2_EmittedIsInputMinusExcluded ==
    /\ (pc = "parse_no_complex" /\ final_h.exists) =>
           Emitted(groups.value) = Expected(Ext, FALSE)
    /\ (pc = "source" /\ final_no_complex_h.exists) =>
           Emitted(groups_no_complex.value) = Expected(Ext, TRUE)

\* the files a run on the processed header can write as the full header
HeaderOutcomes(content, skip_complex) ==
    UNION {{File(FileText(t)) : t \in create_header_text(r.value)} :
              r \in {x \in parse_header(content, skip_complex) : x.ok}}

\* C3: a second run on the same input writes the same bytes to all three
\* files, whatever order the sets sorted by get_groups yield their elements
\* in.
C3_OutputDeterminedByInput ==
    /\ (pc = "parse_no_complex" /\ final_h.exists) =>
           HeaderOutcomes(processed_h.content, FALSE) = {final_h}
    /\ (pc = "source" /\ final_no_complex_h.exists) =>
           HeaderOutcomes(processed_h.content, TRUE) = {final_no_complex_h}
    /\ (pc = "check" /\ source_c.exists) =>
           {File(FileText(t)) : t \in create_source_text} = {source_c}

Tables == (DEFINES \cup CHAR_DEFINES) \cup IGNORE_DEFINES

\* step 6 has read the copied header
DefinesChecked == "Step 6" \in {m.kind : m \in Range(console)}

Printed(kind) == \E i \in DOMAIN console : console[i].kind = kind

\* C4 as stated: when the header holds a #define whose name is in none of
\* the three tables, the run does not reach "Success!": it has aborted with
\* a ValueError that names the unknown defines.
C4_AnyUnknownDefineAborts ==
    LET unknown == {d.name : d \in {e \in defines_read : e.name \notin Tables}}
    IN  (DefinesChecked /\ unknown # {}) =>
            /\ pc = "failed" /\ ~Printed("Success!")
            /\ error.type = "ValueError" /\ unknown \subseteq Range(error.names)

\* C4 amended: when the header holds a #define that define_pattern matches
\* (the name followed by white space) and whose name is in none of the three
\* tables, the run does not reach "Success!": the define check aborts it
\* with a ValueError that names exactly those defines.
C4_MatchedUnknownDefineAborts ==
    LET unknown == {d.name : d \in {e \in defines_read :
                                       IsSpace(e.next) /\ e.name \notin Tables}}
    IN  (DefinesChecked /\ unknown # {}) =>
            /\ pc = "failed" /\ ~Printed("Success!")
            /\ error.type = "ValueError" /\ Range(error.names) = unknown

\* C4 witness: the define check has aborted a run whose header holds an
\* unknown object-like define.
C4_Witness ==
    /\ pc = "failed" /\ error.type = "ValueError"
    /\ D_NEW_OPTION \in defines_read

\* C5: no name of DEPRECATED occurs in either generated header.
C5_NoDeprecatedNameWritten ==
    \A n \in DEPRECATED :
        /\ final_h.exists => ~Contains(final_h.content, n)
        /\ final_no_complex_h.exists => ~Contains(final_no_complex_h.content, n)

\* C6: nothing written to suitesparse_graphblas_no_complex.h contains FC32
\* or FC64.
C6_NoComplexWritten ==
    final_no_complex_h.exists => ~has_complex(final_no_complex_h.content)

\* the phases of the linear pipeline, in its order
Phase(p) ==
    CASE p = "copy" -> 1
      [] p = "preprocess" -> 2
      [] p \in {"parse", "parse_no_complex"} -> 3
      [] p \in {"emit", "emit_no_complex", "source"} -> 4
      [] p = "check" -> 5
      [] p \in {"success", "failed"} -> 6

\* C7 as stated: copy, preprocess, parse and classify, emit, validate happen
\* in that order, so no step of an earlier phase runs after one of a later
\* phase.
C7_PhasesInOrder == [][Phase(pc') >= Phase(pc)]_vars

\* the statements of main() in the order of the source, and what follows
\* each when it does not raise
StepOrder ==
    <<"copy", "preprocess", "parse", "emit", "parse_no_complex",
      "emit_no_complex", "source", "check", "success">>

IndexOf(p) == CHOOSE i \in DOMAIN StepOrder : StepOrder[i] = p

\* the files in the order the steps write them
FilesInOrder ==
    <<orig_h, processed_h, final_h, final_no_complex_h, source_c>>

\* C7 amended: the steps happen in the order copy, preprocess, parse and
\* emit of the full header, parse and emit of the header without complex
\* types, emit of source.c, validate defines: every step is followed by the
\* next one or by the abort of the run, after an abort or "Success!" nothing
\* executes, a file exists only if the files of the earlier steps do, and
\* "Success!" is reported only by the define validation, when it found no
\* unknown define.
C7_StepsInOrder ==
    [][/\ pc \in {"success", "failed"} => UNCHANGED vars
       /\ pc' # pc =>
             \/ pc' = "failed" /\ error'.raised
             \/ /\ pc \notin {"success", "failed"}
                /\ IndexOf(pc') = IndexOf(pc) + 1
                /\ ~error'.raised
       /\ \A i, j \in DOMAIN FilesInOrder :
             (i < j /\ FilesInOrder[j]'.exists) => FilesInOrder[i]'.exists
       /\ pc' = "success" /\ pc # "success" =>
             /\ pc = "check"
             /\ unknown_defines(FoundDefines(defines_read')) = {}
       /\ Printed("Success!")' <=> pc' = "success"]_vars

\* C7 witness: a parse failure has ended the run before anything was
\* emitted.
C7_Witness ==
    /\ pc = "failed"
    /\ processed_h.exists /\ processed_h.content.c
    /\ ~final_h.exists /\ ~final_no_complex_h.exists /\ ~source_c.exists

\* C8: if the input header does not exist the run raises FileNotFoundError
\* in step 1, and no file next to the tool is created or modified.
C8_MissingInputWritesNothing ==
    ~input_exists =>
        /\ \A i \in DOMAIN FilesInOrder : FilesInOrder[i] = Absent
        /\ pc \in {"copy", "failed"}
        /\ pc = "failed" => error.type = "FileNotFoundError"

\* C8 witness: the run on a missing input has ended.
C8_Witness == ~input_exists /\ pc = "failed"

\* the expected defines the header has no directive for
AbsentDefines ==
    {n \in DEFINES \cup CHAR_DEFINES : \A d \in defines_read : d.name # n}

\* the expected defines the header has no object-like directive for
UnmatchedDefines ==
    {n \in DEFINES \cup CHAR_DEFINES :
        \A d \in defines_read : ~(d.name = n /\ IsSpace(d.next))}

\* the names a warning on the console gives
WarnedNames ==
    UNION {Range(console[i].names) :
              i \in {j \in DOMAIN console : console[j].kind = "WARNING"}}

\* C9 as stated: a warning is printed exactly when an expected define is
\* absent from the header, it names the absent defines, and it does not end
\* the run.
C9_WarningIffDefineAbsent ==
    /\ Printed("WARNING") => DefinesChecked
    /\ DefinesChecked =>
          /\ Printed("WARNING") <=> AbsentDefines # {}
          /\ WarnedNames = AbsentDefines

\* C9 amended: a warning is printed only by the define check, exactly when
\* an expected define is not in the header as a directive that
\* define_pattern matches; it names those defines, and the run then fails
\* only for an unknown define and reports "Success!" otherwise.
C9_WarningIffDefineUnmatched ==
    /\ Printed("WARNING") => DefinesChecked
    /\ DefinesChecked =>
          /\ Printed("WARNING") <=> UnmatchedDefines # {}
          /\ WarnedNames = UnmatchedDefines
          /\ pc \in {"success", "failed"}
          /\ pc = "failed" <=>
                \E d \in defines_read : IsSpace(d.next) /\ d.name \notin Tables
    /\ pc = "failed" <=> error.raised

\* C9 witness: a run whose header lacks an expected define has warned and
\* reported "Success!".
C9_Witness ==
    /\ pc = "success" /\ Printed("WARNING")
    /\ D_NTHREADS \notin defines_read

\* C10: get_group_info raises whenever the number of extern functions with
\* one of the prefixes GrB_, GxB_, GB_ differs from the number of lines of
\* the methods group of that prefix; when it returns the numbers are equal.
C10_CountMismatchAborts ==
    (pc = "parse" /\ Parsed) =>
        \A g \in get_groups(Ext), skip_complex \in BOOLEAN :
            (g.ok /\ get_group_info(g.value, Ext, skip_complex).ok) =>
                /\ Len(NodesOf(Ext, "GrB")) = Len(g.value.GrB_methods)
                /\ Len(NodesOf(Ext, "GxB")) = Len(g.value.GxB_methods)
                /\ Len(NodesOf(Ext, "GB")) = Len(g.value.GB_methods)

\* C10 witness: the run has aborted on a header that declares the same
\* function twice, which get_groups classified as one line.
C10_Witness ==
    /\ pc = "failed" /\ error.type = "AssertionError"
    /\ Parsed /\ Ext = <<F_finalize, F_finalize>>
    /\ \A g \in get_groups(Ext) : g.ok /\ Len(g.value.GrB_methods) = 1

\* the line is an extern declaration that matches the pattern of no group
NoBucketLine(x) ==
    /\ Contains(x, <<"extern">>)
    /\ \A prefix \in {"GxB", "GrB", "GB"} :
          ~Contains(x, extern_GrB_Info \o <<prefix>>)
    /\ \A prefix \in {"GxB", "GrB"} :
          /\ ~Contains(x, <<"extern", " ", prefix>>)
          /\ ~(Contains(x, extern_const) /\ Contains(x, <<prefix>>))

\* the enum typedef matches the pattern of neither enum group
NoBucketEnum(e) ==
    ~Contains(e, <<"}", " ", "GrB">>) /\ ~Contains(e, <<"}", " ", "GxB">>)

\* the header has a declaration that no group takes
HasNoBucket(ast) ==
    \/ \E x \in Range(GenLines(ast)) : NoBucketLine(x)
    \/ \E e \in Range(EnumResults(ast)) : NoBucketEnum(e)

\* C11: a header with a declaration that matches no group aborts the run in
\* its first parse with an AssertionError, before any file is generated (so
\* once the first parse is over, and as long as no header is written, the
\* run has failed that way); and whenever get_groups returns, no line with
\* "extern" is in "not seen", every line with "extern GrB_Info " is in a
\* methods group, every line with "extern const" is in a const group and
\* every enum typedef is in an enum group.
C11_NoBucketAborts ==
    /\ (/\ Parsed
        /\ pc \notin {"parse", "success"}
        /\ ~final_h.exists
        /\ HasNoBucket(Ext)) =>
           pc = "failed" /\ error.type = "AssertionError"
    /\ (Parsed /\ pc = "parse") =>
           \A r \in get_groups(Ext) :
               r.ok =>
                   LET g == r.value
                       methods == (Range(g.GxB_methods) \cup Range(g.GrB_methods))
                                      \cup Range(g.GB_methods)
                       consts == Range(g.GxB_const) \cup Range(g.GrB_const)
                       enums == Range(g.GrB_typedef_enums)
                                    \cup Range(g.GxB_typedef_enums)
                   IN  /\ \A x \in Range(g.not_seen) : ~Contains(x, <<"extern">>)
                       /\ \A x \in Range(GenLines(Ext)) :
                              /\ Contains(x, extern_GrB_Info) => x \in methods
                              /\ Contains(x, extern_const) => x \in consts
                       /\ Range(EnumResults(Ext)) \subseteq enums

\* C11 witness: the first parse has aborted the run on a header that holds
\* a method of no known prefix next to a method of a known one.
C11_Witness ==
    /\ pc = "failed" /\ error.type = "AssertionError"
    /\ Parsed /\ Ext = <<F_finalize, F_other>>

\* C12 as stated: the only files a run writes next to the tool are the two
\* generated headers and source.c, and a run that reports "Success!" has
\* written all three.
C12_OnlyGeneratedFilesWritten ==
    /\ ~orig_h.exists /\ ~processed_h.exists
    /\ pc = "success" =>
          final_h.exists /\ final_no_complex_h.exists /\ source_c.exists

\* the file that holds a text of create_header_text for the groups of r
WrittenFrom(file, r) ==
    r.ok /\ file \in {File(FileText(t)) : t \in create_header_text(r.value)}

\* C12 amended: a run writes five files next to the tool and removes none:
\* the copy GraphBLAS-orig.h and the preprocessor output
\* GraphBLAS-processed.h, which every later file comes after, and the three
\* generated files; once step 5 is done the full header is a text of
\* create_header_text for the groups of step 3 (skip_complex=False), the
\* other header one for the groups of step 4 (skip_complex=True), source.c
\* the text of create_source_text, and a run that reports "Success!" has
\* written all five.
C12_FiveFilesWritten ==
    /\ \A i, j \in DOMAIN FilesInOrder :
          (i < j /\ FilesInOrder[j].exists) => FilesInOrder[i].exists
    /\ pc = "check" =>
          /\ WrittenFrom(final_h, groups)
          /\ WrittenFrom(final_no_complex_h, groups_no_complex)
          /\ source_c \in {File(FileText(t)) : t \in create_source_text}
    /\ pc = "success" => \A i \in DOMAIN FilesInOrder : FilesInOrder[i].exists

\* C12 witness: a run has reported "Success!" with five files written, the
\* two headers differing.
C12_Witness ==
    /\ pc = "success"
    /\ \A i \in DOMAIN FilesInOrder : FilesInOrder[i].exists
    /\ final_h # final_no_complex_h

\* the functions of a result of get_group_info
FunctionInfos(rv) ==
    (Range(rv.GrB_methods) \cup Range(rv.GxB_methods)) \cup Range(rv.GB_methods)

\* the groups a function can be given
FixedGroups ==
    {<<"matrix">>, <<"vector">>, <<"scalar">>, <<"selectop">>, <<"binary">>,
     <<"descriptor">>, <<"monoid">>, <<"semiring">>, <<"type">>, <<"unary">>,
     <<"core">>}

\* the second underscore-separated component of a name
Component(name) == SplitN(name, "_", 2)[2]

\* info.group is the group the precedence rule gives info
GroupedByPrecedence(info) ==
    /\ info.group \in FixedGroups
    /\ IF Contains(info.text, <<"GrB", "_", "Matrix">>)
       THEN info.group = <<"matrix">>
       ELSE IF Contains(info.text, <<"GrB", "_", "Vector">>)
       THEN info.group = <<"vector">>
       ELSE IF Contains(info.text, <<"GxB", "_", "Scalar">>)
       THEN info.group = <<"scalar">>
       ELSE <<Component(info.name), info.group>> \in GroupTable

\* the function is one that get_group_info looks up in the table and does
\* not find there
NotInTable(node) ==
    /\ \E prefix \in {"GrB", "GxB", "GB"} : StartsWith(node.name, <<prefix, "_">>)
    /\ node.rtype = GrB_Info
    /\ node.name \notin DEPRECATED
    /\ ~GroupByText(FunctionText(node))
    /\ \A p \in GroupTable : p[1] # Component(node.name)

\* every function of the two parse results has the group of the rule
C13_GroupByPrecedence ==
    /\ pc = "emit" => \A info \in FunctionInfos(groups.value) :
                          GroupedByPrecedence(info)
    /\ pc = "emit_no_complex" =>
          \A info \in FunctionInfos(groups_no_complex.value) :
              GroupedByPrecedence(info)

\* a function that is looked up in the table and is not there ends the run
C13_NotInTableAborts ==
    (Parsed /\ pc # "parse"
        /\ \E i \in DOMAIN ExternFunctions(Ext) :
              NotInTable(ExternFunctions(Ext)[i])) =>
        pc = "failed" /\ ~final_h.exists

\* C13: every emitted function has exactly the group the precedence rule
\* gives it, one of the fixed set; a function whose component is not in
\* the table, and an extern function that does not return GrB_Info, abort
\* the run in its first parse, so that nothing is emitted.
C13_FunctionsGroupedOrAborted ==
    /\ C13_GroupByPrecedence
    /\ C13_NotInTableAborts
    /\ (Parsed /\ pc # "parse"
           /\ \E i \in DOMAIN ExternFunctions(Ext) :
                 ExternFunctions(Ext)[i].rtype # GrB_Info) =>
           pc = "failed" /\ ~final_h.exists

\* the enum typedefs of the header
EnumNodes(ast) == {ast[i] : i \in {j \in DOMAIN ast : ast[j].type = "Enum"}}

\* the enumerators of the enum that are to stay, in their order
StayingFields(node, skip_complex) ==
    SelectSeq(node.fields,
              LAMBDA f : /\ f[1] \notin DEPRECATED
                         /\ ~(skip_complex /\ has_complex(f[1])))

\* the enum is to be left out
LeftOut(node, skip_complex) ==
    \/ node.name \in DEPRECATED
    \/ skip_complex /\ has_complex(node.name)
    \/ StayingFields(node, skip_complex) = <<>>

\* the text of the enum with the enumerators fs, a comma after each but the
\* last
EnumWith(node, fs) ==
    <<"typedef", " ", "enum", "\n", "{", "\n">>
        \o Flatten([i \in DOMAIN fs |->
                       <<" ", " ">> \o fs[i][1] \o <<" ", "=", " ">> \o fs[i][2]
                           \o (IF i = Len(fs) THEN <<>> ELSE <<",">>)
                           \o <<"\n">>])
        \o <<"}", " ">> \o node.name \o <<";">>

\* the enums of rv are the enums of the header that are not left out, each
\* with the enumerators that are to stay
EnumsFiltered(rv, ast, skip_complex) ==
    {e.text : e \in Range(rv.GrB_typedef_enums) \cup Range(rv.GxB_typedef_enums)}
        = {EnumWith(node, StayingFields(node, skip_complex)) :
              node \in {n \in EnumNodes(ast) : ~LeftOut(n, skip_complex)}}

\* C14: the enums that handle_enums yields are the enums of the header but
\* those whose name is excluded or whose fields are all removed; each has
\* its original fields in their order, but the deprecated ones and, with
\* skip_complex, the ones whose name has FC32 or FC64: so at least one
\* field, with a comma after every field but the last.
C14_EnumFieldsFiltered ==
    /\ pc = "emit" => EnumsFiltered(groups.value, Ext, FALSE)
    /\ pc = "emit_no_complex" => EnumsFiltered(groups_no_complex.value, Ext, TRUE)

\* C14 witness: the second parse has returned an enum that lost a complex
\* field and one that lost a deprecated field, the first parse having kept
\* both fields of the former.
C14_Witness ==
    /\ pc = "emit_no_complex"
    /\ Range(Ext) = {E_Code, E_Desc_Value}
    /\ Len(groups.value.GxB_typedef_enums) = 1
    /\ groups.value.GxB_typedef_enums[1].text = EnumWith(E_Code, E_Code.fields)
    /\ Len(groups_no_complex.value.GxB_typedef_enums) = 1
    /\ Len(groups_no_complex.value.GrB_typedef_enums) = 1
====
